---- MODULE Spec2Model ----
(***************************************************************************)
(* Authentication core of chat-with-docs: users, opaque refresh tokens     *)
(* stored by fingerprint, signed access tokens, and the request handlers   *)
(* of app/services/auth_service.py and app/api/v1/auth.py.                 *)
(*                                                                         *)
(* The relational store is the only shared state.  Each request worker     *)
(* owns a session: its reads see the committed tables and its writes are   *)
(* staged in the session until session.commit() applies them atomically.   *)
(***************************************************************************)
EXTENDS Integers, Sequences, FiniteSets, TLC

\* ------------------------------------------------------------ bounds
\* The clock runs over 0..MaxTime (one tick is one abstract time unit).
MaxTime == 1
\* Size of the pool secrets.token_urlsafe draws from.
NumSecrets == 3
\* settings.REFRESH_TOKEN_EXPIRES_DAYS, in ticks.
REFRESH_TOKEN_EXPIRES_DAYS == 1
\* settings.JWT_ACCESS_EXPIRES_MINUTES, in ticks.
JWT_ACCESS_EXPIRES_MINUTES == 1

Workers == {"w1", "w2"}
Emails == {"a@x.com", "b@x.com"}
\* Passwords clients sign up with, and passwords they try at login.
SignupPasswords == {"longpass1"}
Passwords == SignupPasswords \cup {"wrongpass1"}
Secrets == 1..NumSecrets
Salts == {"s1"}

VARIABLES
    users,          \* table users: sequence of rows, the row's id is its index
    refresh_tokens, \* table refresh_tokens: sequence of rows, id is the index
    now,            \* datetime.now(timezone.utc)
    pc,             \* per worker: the handler step it is at
    req,            \* per worker: the request's arguments and session state,
                    \* and at "done" the response it is about to send
    accessIssued,   \* access tokens handed to clients so far
    settings,       \* get_settings(): the configuration the process runs with
    lifespan,       \* the application's startup: where it stands, the
                    \* attempt ping_db is at and the waits it has slept
    cookie          \* the refresh_token cookie one client (a browser)
                    \* holds: the secret of the last Set-Cookie it received

vars ==
    <<users, refresh_tokens, now, pc, req, accessIssued, settings, lifespan,
      cookie>>

\* ------------------------------------------------------------ values
\* A nullable timestamp: <<>> is NULL, <<t>> is the time t.
Null == <<>>
At(t) == <<t>>

Idle == [op |-> "idle"]

\* The store's IntegrityError for each unique constraint; no handler
\* catches it, so the caller sees a 500.
TokenHashConflict == "IntegrityError refresh_tokens.token_hash"
EmailConflict == "IntegrityError users.email"

\* What a request hands back to its caller.  status is the HTTP status the
\* caller sees (500: an exception nothing translates), detail the message,
\* access / refresh the tokens returned (<<>> when none), count the
\* return value of revoke_all_user_tokens, input the request it answers.
\* raised is the exception the service layer raised (NoError when it
\* returned), hash_ops the number of password hash computations made.
NoError == [class |-> "none", status_code |-> 0, detail |-> ""]

Response(op, input, status, detail, access, refresh, count) ==
    [op |-> op, input |-> input, status |-> status, detail |-> detail,
     access |-> access, refresh |-> refresh, count |-> count,
     raised |-> NoError, hash_ops |-> 0, user |-> Null]

\* fastapi.HTTPException(status_code, detail)
HTTPException(status_code, detail) ==
    [class |-> "HTTPException", status_code |-> status_code, detail |-> detail]

\* The domain errors of app/exceptions: AppError subclasses with a message.
InvalidCredentialsError(message) ==
    [class |-> "InvalidCredentialsError", status_code |-> 0, detail |-> message]
InvalidTokenError(message) ==
    [class |-> "InvalidTokenError", status_code |-> 0, detail |-> message]
DuplicateEmailError(message) ==
    [class |-> "DuplicateEmailError", status_code |-> 0, detail |-> message]
UserNotFoundError(message) ==
    [class |-> "UserNotFoundError", status_code |-> 0, detail |-> message]

\* sqlalchemy.exc.IntegrityError for a unique constraint.
IntegrityError(constraint) ==
    [class |-> "IntegrityError", status_code |-> 0, detail |-> constraint]

\* What the caller of endpoint op sees when the service raises exc: an
\* HTTPException becomes its own status and detail, the domain errors an
\* endpoint catches become the HTTPException it raises from them, and any
\* other exception is an unhandled server error.
Translate(op, exc) ==
    IF exc.class = "HTTPException"
    THEN [status |-> exc.status_code, detail |-> exc.detail]
    ELSE IF \/ op = "login" /\ exc.class = "InvalidCredentialsError"
            \/ op = "refresh" /\ exc.class \in {"InvalidTokenError",
                                                 "UserNotFoundError"}
    THEN [status |-> 401, detail |-> exc.detail]
    ELSE IF op = "signup" /\ exc.class = "DuplicateEmailError"
    THEN [status |-> 409, detail |-> exc.detail]
    ELSE [status |-> 500,
          detail |-> IF exc.class = "IntegrityError" THEN exc.detail
                     ELSE exc.class]

\* The response to a request whose service call raised exc.
Failure(op, input, exc) ==
    [Response(op, input, Translate(op, exc).status, Translate(op, exc).detail,
              <<>>, <<>>, 0) EXCEPT !.raised = exc]

\* ------------------------------------------------------------ security.py
\* hash_password: the salt is embedded in the hash string.
hash_password(password, salt) ==
    [alg |-> "argon2", salt |-> salt, digest |-> <<salt, password>>]

\* (Variant: the stored hash is compared with the plain password.)
verify_password_unhashed(plain_password, hashed_password) ==
    hashed_password.digest = plain_password
verify_password(plain_password, hashed_password) ==
    hashed_password.digest = <<hashed_password.salt, plain_password>>

\* hash_refresh_token: sha256 hex digest, deterministic and (on the pool)
\* collision free.
hash_refresh_token(token) == <<"sha256", token>>

\* refresh_token_expires_at with the defaults.
refresh_token_expires_at == now + REFRESH_TOKEN_EXPIRES_DAYS

\* A token is its claims and, in field sig, the key its signature was
\* made with; a string that is no three-segment token has no sig at all.
Claim(name, value) == name :> value

\* jwt.encode(payload, key, algorithm)
jwt_encode(payload, key) == payload @@ Claim("sig", key)

\* create_access_token(subject, expire_minutes, additional_claims).  An
\* absent argument is Null, expire_minutes = m is <<m>>, and
\* additional_claims is a record of claims.
\* (Variant: "expire_minutes or default", which takes 0 for absent.)
create_access_token_or_default(subject, expire_minutes, additional_claims) ==
    LET issued_at == now
        expires_at == issued_at + (IF expire_minutes # Null /\ expire_minutes[1] # 0
                                   THEN expire_minutes[1]
                                   ELSE JWT_ACCESS_EXPIRES_MINUTES)
        payload == [sub |-> subject, iat |-> issued_at, exp |-> expires_at,
                    typ |-> "access"]
        issued == IF settings.JWT_ISSUER # Null
                  THEN Claim("iss", settings.JWT_ISSUER[1]) @@ payload
                  ELSE payload
        claims == IF DOMAIN additional_claims # {}
                  THEN additional_claims @@ issued
                  ELSE issued
    IN  jwt_encode(claims, "JWT_ACCESS_SECRET")
create_access_token_with(subject, expire_minutes, additional_claims) ==
    LET issued_at == now
        expires_at == issued_at + (IF expire_minutes # Null
                                   THEN expire_minutes[1]
                                   ELSE JWT_ACCESS_EXPIRES_MINUTES)
        payload == [sub |-> subject, iat |-> issued_at, exp |-> expires_at,
                    typ |-> "access"]
        issued == IF settings.JWT_ISSUER # Null
                  THEN Claim("iss", settings.JWT_ISSUER[1]) @@ payload
                  ELSE payload
        claims == IF DOMAIN additional_claims # {}
                  THEN additional_claims @@ issued
                  ELSE issued
    IN  jwt_encode(claims, "JWT_ACCESS_SECRET")

\* create_access_token(subject) with the other arguments left out.
create_access_token(subject) == create_access_token_with(subject, Null, Null)

\* A token string that is not a token signed with the access secret.
GarbageToken ==
    [sub |-> <<"uuid", 0>>, iat |-> 0, exp |-> 0, typ |-> "none", sig |-> "bad"]

\* jwt.decode(token, key, algorithms, options={"require": [...]}, issuer):
\* "ok", or the PyJWTError it raises.  PyJWT rejects exp <= now.
\* (Variant: a token is still good at the instant of its exp.)
jwt_decode_until_exp(token) ==
    LET require == {"exp", "sub"} \cup
                   (IF settings.JWT_ISSUER # Null THEN {"iss"} ELSE {})
    IN  IF "sig" \notin DOMAIN token THEN "DecodeError"
        ELSE IF token.sig # "JWT_ACCESS_SECRET" THEN "InvalidSignatureError"
        ELSE IF \E c \in require : c \notin DOMAIN token
        THEN "MissingRequiredClaimError"
        ELSE IF token.exp < now THEN "ExpiredSignatureError"
        ELSE IF settings.JWT_ISSUER # Null /\ token.iss # settings.JWT_ISSUER[1]
        THEN "InvalidIssuerError"
        ELSE "ok"
jwt_decode(token) ==
    LET require == {"exp", "sub"} \cup
                   (IF settings.JWT_ISSUER # Null THEN {"iss"} ELSE {})
    IN  IF "sig" \notin DOMAIN token THEN "DecodeError"
        ELSE IF token.sig # "JWT_ACCESS_SECRET" THEN "InvalidSignatureError"
        ELSE IF \E c \in require : c \notin DOMAIN token
        THEN "MissingRequiredClaimError"
        ELSE IF token.exp <= now THEN "ExpiredSignatureError"
        ELSE IF settings.JWT_ISSUER # Null /\ token.iss # settings.JWT_ISSUER[1]
        THEN "InvalidIssuerError"
        ELSE "ok"

\* decode_access_token: the payload, or the InvalidTokenError it raises.
\* The error for a wrong typ is raised inside the try block, but it is no
\* PyJWTError, so the except clause does not replace it.
\* (Variant: the token also needs a refresh record of its subject that
\* has not been revoked.)
decode_access_token_with_session(token) ==
    IF jwt_decode(token) # "ok"
    THEN [ok |-> FALSE, raised |-> InvalidTokenError("Invalid or expired token")]
    ELSE IF "typ" \notin DOMAIN token \/ token.typ # "access"
    THEN [ok |-> FALSE, raised |-> InvalidTokenError("Invalid token type")]
    ELSE IF ~\E i \in DOMAIN refresh_tokens :
               /\ <<"uuid", refresh_tokens[i].user_id>> = token.sub
               /\ refresh_tokens[i].revoked_at = Null
    THEN [ok |-> FALSE, raised |-> InvalidTokenError("Invalid or expired token")]
    ELSE [ok |-> TRUE,
          payload |-> [c \in DOMAIN token \ {"sig"} |-> token[c]]]
decode_access_token(token) ==
    IF jwt_decode(token) # "ok"
    THEN [ok |-> FALSE, raised |-> InvalidTokenError("Invalid or expired token")]
    ELSE IF "typ" \notin DOMAIN token \/ token.typ # "access"
    THEN [ok |-> FALSE, raised |-> InvalidTokenError("Invalid token type")]
    ELSE [ok |-> TRUE,
          payload |-> [c \in DOMAIN token \ {"sig"} |-> token[c]]]

\* TRUE iff decode_access_token returns a payload.
AccessTokenValid(token) == decode_access_token(token).ok

\* str(user.id) and UUID(sub).  A subject is <<"uuid", id>>, the text of
\* a UUID, or <<"text", s>>, a string UUID() does not parse.
UuidStr(id) == <<"uuid", id>>
ParseUuid(s) == s[2]
IsUuid(s) == s[1] = "uuid"

\* ------------------------------------------------------------ the store
\* User(email=..., name=..., password=...), id given on insert.
UserRow(id, email, password) ==
    [id |-> id, email |-> email, password |-> password]

\* RefreshToken(user_id=..., token_hash=..., expires_at=...); revoked_at is
\* NULL at creation.  rotated_from is history, not a column: the id of the
\* record whose rotation created this one (0: issued by login or signup).
\* (Variant: the row is stored without its owner's id.)
RefreshTokenRowUnowned(user_id, token_hash, expires_at, rotated_from) ==
    [user_id |-> 0, token_hash |-> token_hash, expires_at |-> expires_at,
     revoked_at |-> Null, rotated_from |-> rotated_from]
RefreshTokenRow(user_id, token_hash, expires_at, rotated_from) ==
    [user_id |-> user_id, token_hash |-> token_hash, expires_at |-> expires_at,
     revoked_at |-> Null, rotated_from |-> rotated_from]

\* get_user_by_email: ids of the rows with that email.
get_user_by_email(email) ==
    {i \in DOMAIN users : users[i].email = email}

\* get_user_by_id
get_user_by_id(user_id) ==
    {i \in DOMAIN users : i = user_id}

\* The unique constraint on refresh_tokens.token_hash.
\* (Variant: a column without the constraint.)
TokenHashNotUnique(table, token_hash) == TRUE
TokenHashUnique(table, token_hash) ==
    \A i \in DOMAIN table : table[i].token_hash # token_hash

\* The unique constraint on users.email.
EmailUnique(table, email) ==
    \A i \in DOMAIN table : table[i].email # email

\* authenticate_user: user is the set holding the id of the authenticated
\* user (empty: None), hash_ops the password hash computations made on the
\* way: security.hash_password("dummy") for an unknown email, one
\* verify_password otherwise.
\* (Variant: no dummy hash for an unknown email.)
authenticate_user_no_dummy(email, password) ==
    LET found == get_user_by_email(email)
    IN  IF found = {} THEN [user |-> {}, hash_ops |-> 0]
        ELSE [user |-> {i \in found :
                          verify_password(password, users[i].password)},
              hash_ops |-> 1]
authenticate_user(email, password) ==
    LET found == get_user_by_email(email)
    IN  IF found = {} THEN [user |-> {}, hash_ops |-> 1]
        ELSE [user |-> {i \in found :
                          verify_password(password, users[i].password)},
              hash_ops |-> 1]

\* AuthService.get_current_user: the user the token names, or the
\* exception raised.
\* (Variant: the user must hold a refresh record that is not revoked.)
get_current_user_with_session(token) ==
    LET decoded == decode_access_token(token)
    IN  IF ~decoded.ok THEN [ok |-> FALSE, raised |-> decoded.raised]
        ELSE IF ~IsUuid(decoded.payload.sub)
        THEN [ok |-> FALSE,
              raised |-> HTTPException(401, "Invalid token subject")]
        ELSE IF \/ get_user_by_id(ParseUuid(decoded.payload.sub)) = {}
                \/ ~\E i \in DOMAIN refresh_tokens :
                       /\ refresh_tokens[i].user_id = ParseUuid(decoded.payload.sub)
                       /\ refresh_tokens[i].revoked_at = Null
        THEN [ok |-> FALSE, raised |-> HTTPException(401, "User not found")]
        ELSE [ok |-> TRUE, user |-> users[ParseUuid(decoded.payload.sub)]]
get_current_user(token) ==
    LET decoded == decode_access_token(token)
    IN  IF ~decoded.ok THEN [ok |-> FALSE, raised |-> decoded.raised]
        ELSE IF ~IsUuid(decoded.payload.sub)
        THEN [ok |-> FALSE,
              raised |-> HTTPException(401, "Invalid token subject")]
        ELSE IF get_user_by_id(ParseUuid(decoded.payload.sub)) = {}
        THEN [ok |-> FALSE, raised |-> HTTPException(401, "User not found")]
        ELSE [ok |-> TRUE, user |-> users[ParseUuid(decoded.payload.sub)]]

\* ------------------------------------------------------------ startup
\* database.py, the decorator of ping_db: stop_after_attempt(3) and
\* wait_exponential(multiplier=2, min=2, max=10).
stop_after_attempt == 3
wait_multiplier == 2
wait_min == 2
wait_max == 10

Min(a, b) == IF a <= b THEN a ELSE b
Max(a, b) == IF a >= b THEN a ELSE b

\* tenacity's wait_exponential: multiplier * 2^(attempt_number - 1),
\* clamped to [min, max]; the wait slept after a failed attempt.
wait_exponential(attempt_number) ==
    Max(Max(0, wait_min),
        Min(wait_multiplier * 2 ^ (attempt_number - 1), wait_max))

\* The application's startup at a call of ping_db that is about to make
\* its attempt number attempt_number, having slept the waits in slept.
Startup(state, attempt_number, slept) ==
    [state |-> state, attempt_number |-> attempt_number, slept |-> slept]

\* lifespan has got past ping_db at its first attempt: requests are served.
Serving == Startup("serving", 1, <<>>)

\* One attempt of ping_db: SELECT 1 in a session of its own.  It returns
\* True and lifespan goes on to serve; or it raises, and tenacity either
\* stops (the attempt was the last one allowed; reraise=True hands the
\* attempt's own exception to lifespan, and the application does not
\* start) or goes to sleep before the next attempt.
PingAttempt(connected) ==
    /\ lifespan.state = "ping_db"
    /\ lifespan' =
          IF connected
          THEN [lifespan EXCEPT !.state = "serving"]
          ELSE IF lifespan.attempt_number >= stop_after_attempt
          THEN [lifespan EXCEPT !.state = "failed"]
          ELSE [lifespan EXCEPT !.state = "sleep"]
    /\ UNCHANGED <<users, refresh_tokens, now, pc, req, accessIssued, settings,
                 cookie>>

\* tenacity sleeps the wait computed for the attempt that failed, then
\* calls ping_db again.
PingSleep ==
    /\ lifespan.state = "sleep"
    /\ lifespan' =
          Startup("ping_db", lifespan.attempt_number + 1,
                  Append(lifespan.slept,
                         wait_exponential(lifespan.attempt_number)))
    /\ UNCHANGED <<users, refresh_tokens, now, pc, req, accessIssued, settings,
                 cookie>>

\* ------------------------------------------------------------ Init
Init ==
    /\ users = <<>>
    /\ refresh_tokens = <<>>
    /\ now = 0
    /\ pc = [w \in Workers |-> "idle"]
    /\ req = [w \in Workers |-> Idle]
    /\ accessIssued = {}
    /\ settings = [JWT_ISSUER |-> Null]
    /\ lifespan = Serving
    /\ cookie = Null

\* Time passes.  One tick is a whole unit of the token lifetimes (days,
\* minutes); a handler's store round trips take far less, so no tick falls
\* inside a running handler.
Tick ==
    /\ UNCHANGED <<settings, lifespan, cookie>>
    /\ now < MaxTime
    /\ \A w \in Workers : pc[w] \in {"idle", "done"}
    /\ now' = now + 1
    /\ UNCHANGED <<users, refresh_tokens, pc, req, accessIssued>>

\* ------------------------------------------------------------ sessions
\* Worker w is at step label of its handler and may take it.  A response
\* that is ready is sent before any other worker moves on: sending touches
\* nothing the workers share.
Runs(w, label) ==
    /\ pc[w] = label
    /\ \A v \in Workers \ {w} : pc[v] # "done"

\* The handler of worker w returns (or raises): the response is ready.
Return(w, response) ==
    /\ pc' = [pc EXCEPT ![w] = "done"]
    /\ req' = [req EXCEPT ![w] = response]

\* The response is sent and the worker is free again.
Respond(w) ==
    /\ UNCHANGED <<settings, lifespan, cookie>>
    /\ Runs(w, "done")
    /\ pc' = [pc EXCEPT ![w] = "idle"]
    /\ req' = [req EXCEPT ![w] = Idle]
    /\ UNCHANGED <<users, refresh_tokens, now, accessIssued>>

\* UPDATE refresh_tokens SET revoked_at = t WHERE id IN ids (the ORM's
\* flush updates by primary key, whatever the row's committed state).
\* (Variant: the update also ends the row's lifetime.)
ApplyRevokesExpiring(table, ids, t) ==
    [i \in DOMAIN table |->
        IF i \in ids
        THEN [table[i] EXCEPT !.revoked_at = t, !.expires_at = t[1]]
        ELSE table[i]]
ApplyRevokes(table, ids, t) ==
    [i \in DOMAIN table |->
        IF i \in ids THEN [table[i] EXCEPT !.revoked_at = t] ELSE table[i]]

\* issue_refresh_token, lines 72-80: the row the session stages for the
\* secret raw_token.
\* (Variant: expires_at is the time of issue.)
StagedRefreshTokenNoLifetime(user_id, raw_token, rotated_from) ==
    RefreshTokenRow(user_id, hash_refresh_token(raw_token), now, rotated_from)
StagedRefreshToken(user_id, raw_token, rotated_from) ==
    RefreshTokenRow(user_id, hash_refresh_token(raw_token),
                    refresh_token_expires_at, rotated_from)

\* create_refresh_token: secrets.token_urlsafe draws any value of the pool.
\* Values no row and no session holds yet are interchangeable, so one of
\* them (the least) stands for all: the draw is a value already in use, or
\* that fresh one.
SecretsInUse ==
    {s \in Secrets :
        \/ \E i \in DOMAIN refresh_tokens :
              refresh_tokens[i].token_hash = hash_refresh_token(s)
        \/ \E w \in Workers :
              pc[w] = "refresh_commit" /\ req[w].new_refresh_token = <<s>>}

create_refresh_token ==
    LET fresh == Secrets \ SecretsInUse
    IN  SecretsInUse \cup {s \in fresh : \A t \in fresh : s <= t}

\* ------------------------------------------------------------ login
\* POST /login and /token: AuthService.login with issue_refresh_token's
\* own commit.  The user row is read once and never changes, so the handler
\* is one step.
\* (Variant: a login ends the user's other sessions.)
LoginSingleSession(w, email, password) ==
    /\ UNCHANGED <<settings, lifespan, cookie>>
    /\ Runs(w, "idle")
    /\ LET auth == authenticate_user(email, password)
           input == email
           Hashed(response) == [response EXCEPT !.hash_ops = auth.hash_ops]
       IN  IF auth.user = {}
           THEN /\ Return(w, Hashed(Failure("login", input,
                                 HTTPException(401, "Invalid credentials"))))
                /\ UNCHANGED <<users, refresh_tokens, now, accessIssued>>
           ELSE \E i \in auth.user, raw_token \in create_refresh_token :
                LET access == create_access_token(UuidStr(users[i].id))
                    row == StagedRefreshToken(users[i].id, raw_token, 0)
                IN  IF TokenHashUnique(refresh_tokens, row.token_hash)
                    THEN /\ refresh_tokens' =
                               Append(ApplyRevokes(refresh_tokens,
                                         {j \in DOMAIN refresh_tokens :
                                             /\ refresh_tokens[j].user_id = users[i].id
                                             /\ refresh_tokens[j].revoked_at = Null},
                                         At(now)), row)
                         /\ accessIssued' = accessIssued \cup {access}
                         /\ Return(w, Hashed(Response("login", input, 200, "",
                                               <<access>>, <<raw_token>>, 0)))
                         /\ UNCHANGED <<users, now>>
                    ELSE /\ Return(w, Hashed(Failure("login", input,
                                          IntegrityError(TokenHashConflict))))
                         /\ UNCHANGED <<users, refresh_tokens, now, accessIssued>>
Login(w, email, password) ==
    /\ UNCHANGED <<settings, lifespan, cookie>>
    /\ Runs(w, "idle")
    /\ LET auth == authenticate_user(email, password)
           input == email
           Hashed(response) == [response EXCEPT !.hash_ops = auth.hash_ops]
       IN  IF auth.user = {}
           THEN /\ Return(w, Hashed(Failure("login", input,
                                 HTTPException(401, "Invalid credentials"))))
                /\ UNCHANGED <<users, refresh_tokens, now, accessIssued>>
           ELSE \E i \in auth.user, raw_token \in create_refresh_token :
                LET access == create_access_token(UuidStr(users[i].id))
                    row == StagedRefreshToken(users[i].id, raw_token, 0)
                IN  IF TokenHashUnique(refresh_tokens, row.token_hash)
                    THEN /\ refresh_tokens' = Append(refresh_tokens, row)
                         /\ accessIssued' = accessIssued \cup {access}
                         /\ Return(w, Hashed(Response("login", input, 200, "",
                                               <<access>>, <<raw_token>>, 0)))
                         /\ UNCHANGED <<users, now>>
                    ELSE /\ Return(w, Hashed(Failure("login", input,
                                          IntegrityError(TokenHashConflict))))
                         /\ UNCHANGED <<users, refresh_tokens, now, accessIssued>>

\* ------------------------------------------------------------ signup
\* create_user, lines 88-93: the pre-check.
\* (Variant: no pre-check.)
SignupCheckSkipped(w, email, password) ==
    /\ UNCHANGED <<settings, lifespan, cookie>>
    /\ Runs(w, "idle")
    /\ pc' = [pc EXCEPT ![w] = "signup_insert"]
    /\ req' = [req EXCEPT ![w] =
                 [op |-> "signup", input |-> email, password |-> password]]
    /\ UNCHANGED <<users, refresh_tokens, now, accessIssued>>
SignupCheck(w, email, password) ==
    /\ UNCHANGED <<settings, lifespan, cookie>>
    /\ Runs(w, "idle")
    /\ LET input == email
       IN  IF get_user_by_email(email) # {}
           THEN /\ Return(w, Failure("signup", input,
                          HTTPException(409, "Email already registered")))
           ELSE /\ pc' = [pc EXCEPT ![w] = "signup_insert"]
                /\ req' = [req EXCEPT ![w] =
                             [op |-> "signup", input |-> input,
                              password |-> password]]
    /\ UNCHANGED <<users, refresh_tokens, now, accessIssued>>

\* create_user, lines 95-103: insert the user and commit.
SignupInsert(w) ==
    /\ UNCHANGED <<settings, lifespan, cookie>>
    /\ Runs(w, "signup_insert")
    /\ \E salt \in Salts :
       LET input == req[w].input
           id == Len(users) + 1
           user == UserRow(id, input, hash_password(req[w].password, salt))
       IN  IF EmailUnique(users, input)
           THEN /\ users' = Append(users, user)
                /\ pc' = [pc EXCEPT ![w] = "signup_issue"]
                /\ req' = [req EXCEPT ![w] =
                             [op |-> "signup", input |-> input, user_id |-> id]]
           ELSE /\ Return(w, Failure("signup", input,
                                     IntegrityError(EmailConflict)))
                /\ users' = users
    /\ UNCHANGED <<refresh_tokens, now, accessIssued>>

\* signup, api/v1/auth.py lines 89-96: both tokens for the new user.
SignupIssue(w) ==
    /\ UNCHANGED <<settings, lifespan, cookie>>
    /\ Runs(w, "signup_issue")
    /\ \E raw_token \in create_refresh_token :
       LET input == req[w].input
           user_id == req[w].user_id
           access == create_access_token(UuidStr(user_id))
           row == StagedRefreshToken(user_id, raw_token, 0)
       IN  IF TokenHashUnique(refresh_tokens, row.token_hash)
           THEN /\ refresh_tokens' = Append(refresh_tokens, row)
                /\ accessIssued' = accessIssued \cup {access}
                /\ Return(w, Response("signup", input, 201, "",
                                      <<access>>, <<raw_token>>, 0))
           ELSE /\ Return(w, Failure("signup", input,
                                     IntegrityError(TokenHashConflict)))
                /\ UNCHANGED <<refresh_tokens, accessIssued>>
    /\ UNCHANGED <<users, now>>

\* ------------------------------------------------------------ refresh
\* refresh_tokens, lines 112-134: select the active record with the
\* secret's fingerprint, then its user.
\* (Variants: expires_at >= now; no filter on revoked_at.)
RefreshSelectAtExpiry(table, token_hash) ==
    {i \in DOMAIN table :
        /\ table[i].token_hash = token_hash
        /\ table[i].expires_at >= now
        /\ table[i].revoked_at = Null}
RefreshSelectRevoked(table, token_hash) ==
    {i \in DOMAIN table :
        /\ table[i].token_hash = token_hash
        /\ table[i].expires_at > now}
RefreshSelect(table, token_hash) ==
    {i \in DOMAIN table :
        /\ table[i].token_hash = token_hash
        /\ table[i].expires_at > now
        /\ table[i].revoked_at = Null}

\* refresh_tokens, lines 112-139, up to the commit: validate the secret,
\* load the user, stage the revocation of the old row and (by
\* issue_refresh_token(user, commit=False)) the replacement row.
\* (Variant: the revocation is committed on its own, before the insert.)
RefreshStageCommitsRevoke(w, refresh_token, i, raw_token) ==
    /\ refresh_tokens' = ApplyRevokes(refresh_tokens, {i}, At(now))
    /\ pc' = [pc EXCEPT ![w] = "refresh_commit"]
    /\ req' = [req EXCEPT ![w] =
                 [op |-> "refresh", input |-> refresh_token,
                  stored_token |-> i,
                  user_id |-> refresh_tokens[i].user_id,
                  revoked_at |-> At(now),
                  new_refresh_token |-> <<raw_token>>,
                  new_row |-> StagedRefreshToken(refresh_tokens[i].user_id,
                                                 raw_token, i)]]
RefreshStage(w, refresh_token, i, raw_token) ==
    /\ refresh_tokens' = refresh_tokens
    /\ pc' = [pc EXCEPT ![w] = "refresh_commit"]
    /\ req' = [req EXCEPT ![w] =
                 [op |-> "refresh", input |-> refresh_token,
                  stored_token |-> i,
                  user_id |-> refresh_tokens[i].user_id,
                  revoked_at |-> At(now),
                  new_refresh_token |-> <<raw_token>>,
                  new_row |-> StagedRefreshToken(refresh_tokens[i].user_id,
                                                 raw_token, i)]]

\* refresh_tokens, lines 120-126: the exception for a secret the select
\* matched no record for.
\* (Variant: a message of its own for a revoked record.)
RefreshDeniedByCause(table, refresh_token) ==
    IF \E i \in DOMAIN table :
          /\ table[i].token_hash = hash_refresh_token(refresh_token)
          /\ table[i].revoked_at # Null
    THEN HTTPException(401, "Refresh token revoked")
    ELSE HTTPException(401, "Invalid or expired refresh token")
RefreshDenied(table, refresh_token) ==
    HTTPException(401, "Invalid or expired refresh token")

RefreshValidate(w, refresh_token) ==
    /\ UNCHANGED <<settings, lifespan, cookie>>
    /\ Runs(w, "idle")
    /\ LET found == RefreshSelect(refresh_tokens, hash_refresh_token(refresh_token))
       IN  IF found = {}
           THEN /\ Return(w, Failure("refresh", refresh_token,
                                     RefreshDenied(refresh_tokens, refresh_token)))
                /\ refresh_tokens' = refresh_tokens
           ELSE \E i \in found, raw_token \in create_refresh_token :
                IF get_user_by_id(refresh_tokens[i].user_id) = {}
                THEN /\ Return(w, Failure("refresh", refresh_token,
                                          HTTPException(401, "User not found")))
                     /\ refresh_tokens' = refresh_tokens
                ELSE RefreshStage(w, refresh_token, i, raw_token)
    /\ UNCHANGED <<users, now, accessIssued>>

\* refresh_tokens, lines 140-145: one commit flushes the update and the
\* insert; then the access token is created and both are returned.
RefreshCommit(w) ==
    /\ UNCHANGED <<settings, lifespan, cookie>>
    /\ Runs(w, "refresh_commit")
    /\ LET row == req[w].new_row
           access == create_access_token(UuidStr(req[w].user_id))
       IN  IF TokenHashUnique(refresh_tokens, row.token_hash)
           THEN /\ refresh_tokens' =
                      Append(ApplyRevokes(refresh_tokens, {req[w].stored_token},
                                          req[w].revoked_at), row)
                /\ accessIssued' = accessIssued \cup {access}
                /\ Return(w, Response("refresh", req[w].input, 200, "",
                                      <<access>>, req[w].new_refresh_token, 0))
           ELSE /\ Return(w, Failure("refresh", req[w].input,
                                     IntegrityError(TokenHashConflict)))
                /\ UNCHANGED <<refresh_tokens, accessIssued>>
    /\ UNCHANGED <<users, now>>

\* ------------------------------------------------------------ revoke
\* revoke_refresh_token, lines 148-153.
\* (Variant: only a missing record returns early.)
RevokeGetAnyRecord(w, token_id) ==
    /\ UNCHANGED <<settings, lifespan, cookie>>
    /\ Runs(w, "idle")
    /\ IF token_id \notin DOMAIN refresh_tokens
       THEN Return(w, Response("revoke", token_id, 200, "no-op", <<>>, <<>>, 0))
       ELSE /\ pc' = [pc EXCEPT ![w] = "revoke_commit"]
            /\ req' = [req EXCEPT ![w] =
                         [op |-> "revoke", input |-> token_id,
                          revoked_at |-> At(now)]]
    /\ UNCHANGED <<users, refresh_tokens, now, accessIssued>>
RevokeGet(w, token_id) ==
    /\ UNCHANGED <<settings, lifespan, cookie>>
    /\ Runs(w, "idle")
    /\ IF token_id \notin DOMAIN refresh_tokens
          \/ refresh_tokens[token_id].revoked_at # Null
       THEN Return(w, Response("revoke", token_id, 200, "no-op", <<>>, <<>>, 0))
       ELSE /\ pc' = [pc EXCEPT ![w] = "revoke_commit"]
            /\ req' = [req EXCEPT ![w] =
                         [op |-> "revoke", input |-> token_id,
                          revoked_at |-> At(now)]]
    /\ UNCHANGED <<users, refresh_tokens, now, accessIssued>>

\* revoke_refresh_token, lines 154-155.
RevokeCommit(w) ==
    /\ UNCHANGED <<settings, lifespan, cookie>>
    /\ Runs(w, "revoke_commit")
    /\ refresh_tokens' =
           ApplyRevokes(refresh_tokens, {req[w].input}, req[w].revoked_at)
    /\ Return(w, Response("revoke", req[w].input, 200, "", <<>>, <<>>, 0))
    /\ UNCHANGED <<users, now, accessIssued>>

\* revoke_all_user_tokens, lines 158-161: the rows the select returns.
\* (Variants: no filter on user_id; .first() in place of .all().)
RevokeAllSelectAnyUser(table, user_id) ==
    {i \in DOMAIN table : table[i].revoked_at = Null}
RevokeAllSelectFirst(table, user_id) ==
    LET all == {i \in DOMAIN table :
                   table[i].user_id = user_id /\ table[i].revoked_at = Null}
    IN  {i \in all : \A j \in all : i <= j}
RevokeAllSelect(table, user_id) ==
    {i \in DOMAIN table :
        table[i].user_id = user_id /\ table[i].revoked_at = Null}

\* revoke_all_user_tokens, lines 158-162, called by op for user_id.
RevokeAllStage(w, op, input, user_id) ==
    /\ pc' = [pc EXCEPT ![w] = "revoke_all_commit"]
    /\ req' = [req EXCEPT ![w] =
                 [op |-> op, input |-> input, user_id |-> user_id,
                  tokens |-> RevokeAllSelect(refresh_tokens, user_id),
                  revoked_at |-> At(now)]]

\* revoke_all_user_tokens, lines 163-168; logout, lines 133-135.
RevokeAllCommit(w) ==
    /\ UNCHANGED <<settings, lifespan, cookie>>
    /\ Runs(w, "revoke_all_commit")
    /\ refresh_tokens' =
           ApplyRevokes(refresh_tokens, req[w].tokens, req[w].revoked_at)
    /\ Return(w, Response(req[w].op, req[w].input, 200, "", <<>>, <<>>,
                          Cardinality(req[w].tokens)))
    /\ UNCHANGED <<users, now, accessIssued>>

\* ------------------------------------------------------------ logout
\* POST /logout: the get_current_user dependency (decode the bearer token,
\* parse its subject, load the user), then revoke_all_user_tokens(user.id).
\* An InvalidTokenError of decode_access_token is caught nowhere.
Logout(w, token) ==
    /\ UNCHANGED <<settings, lifespan, cookie>>
    /\ Runs(w, "idle")
    /\ LET current == get_current_user(token)
       IN  IF ~current.ok
           THEN Return(w, Failure("logout", token, current.raised))
           ELSE RevokeAllStage(w, "logout", token, current.user.id)
    /\ UNCHANGED <<users, refresh_tokens, now, accessIssued>>

\* ------------------------------------------------------------ me
\* GET /me: the get_current_user dependency, then the user's public fields.
GetUser(w, token) ==
    /\ UNCHANGED <<settings, lifespan, cookie>>
    /\ Runs(w, "idle")
    /\ LET current == get_current_user(token)
       IN  IF ~current.ok
           THEN Return(w, Failure("me", token, current.raised))
           ELSE Return(w, [Response("me", token, 200, "", <<>>, <<>>, 0)
                              EXCEPT !.user = <<[id |-> current.user.id,
                                                 email |-> current.user.email]>>])
    /\ UNCHANGED <<users, refresh_tokens, now, accessIssued>>

\* ------------------------------------------------------------ crash
\* The worker dies inside a handler: its session is discarded and the
\* store rolls back what it had not committed.
Crash(w) ==
    /\ UNCHANGED <<settings, lifespan, cookie>>
    /\ \E label \in {"signup_insert", "signup_issue", "refresh_commit",
                      "revoke_commit", "revoke_all_commit"} : Runs(w, label)
    /\ pc' = [pc EXCEPT ![w] = "idle"]
    /\ req' = [req EXCEPT ![w] = Idle]
    /\ UNCHANGED <<users, refresh_tokens, now, accessIssued>>

\* ------------------------------------------------------------ Next
\* The ids revoke_refresh_token is called with: every row's, and one of no row.
TokenIds == 1..(Len(refresh_tokens) + 1)

\* A request arrives at an idle worker.
Begin(w) ==
    \/ \E email \in Emails, password \in Passwords : Login(w, email, password)
    \/ \E email \in Emails, password \in SignupPasswords :
          SignupCheck(w, email, password)
    \/ \E refresh_token \in Secrets : RefreshValidate(w, refresh_token)
    \/ \E token_id \in TokenIds : RevokeGet(w, token_id)
    \/ \E token \in accessIssued \cup {GarbageToken} : Logout(w, token)

\* A client asks who it is.
Me(w) ==
    \E token \in accessIssued \cup {GarbageToken} : GetUser(w, token)

\* A worker takes the next step of its handler.
Step(w) ==
    \/ SignupInsert(w)
    \/ SignupIssue(w)
    \/ RefreshCommit(w)
    \/ RevokeCommit(w)
    \/ RevokeAllCommit(w)
    \/ Respond(w)
    \/ Crash(w)

\* Request workers run concurrently.
Next ==
    \/ Tick
    \/ \E w \in Workers : Begin(w)
    \/ \E w \in Workers : Me(w)
    \/ \E w \in Workers : Step(w)

Spec == Init /\ [][Next]_vars

\* One request at a time: a request starts only when no other is running.
\* GET /me is left to IdentitySpec: it writes nothing, so the histories
\* without it reach every state of the store.
SeqWorker == "w1"
SeqNext ==
    \/ Tick
    \/ Begin(SeqWorker)
    \/ Step(SeqWorker)

SeqSpec == Init /\ [][SeqNext]_vars

\* The application from the start of lifespan: ping_db first, and
\* requests (one at a time) once it has returned.
StartupInit ==
    /\ users = <<>>
    /\ refresh_tokens = <<>>
    /\ now = 0
    /\ pc = [w \in Workers |-> "idle"]
    /\ req = [w \in Workers |-> Idle]
    /\ accessIssued = {}
    /\ settings = [JWT_ISSUER |-> Null]
    /\ lifespan = Startup("ping_db", 1, <<>>)
    /\ cookie = Null

StartupNext ==
    \/ \E connected \in BOOLEAN : PingAttempt(connected)
    \/ PingSleep
    \/ lifespan.state = "serving" /\ SeqNext

StartupSpec == StartupInit /\ [][StartupNext]_vars

\* One request at a time, GET /me among them.
IdentityNext ==
    \/ SeqNext
    \/ Me(SeqWorker)

IdentitySpec == Init /\ [][IdentityNext]_vars

\* ------------------------------------------------------------ client
\* One client and its cookie jar.  The response of a login, a signup or a
\* refresh carries Set-Cookie with the new secret (set_refresh_token_cookie)
\* and that of a logout deletes the cookie (response.delete_cookie).  A
\* refresh is this client's when it presented the secret of its cookie:
\* nobody else holds that secret.
ClientReceive(w) ==
    /\ UNCHANGED <<settings, lifespan>>
    /\ Runs(w, "done")
    /\ \/ /\ req[w].op \in {"login", "signup"}
          /\ req[w].refresh # <<>>
          /\ cookie' = req[w].refresh
       \/ /\ req[w].op = "refresh"
          /\ cookie = <<req[w].input>>
          /\ req[w].refresh # <<>>
          /\ cookie' = req[w].refresh
       \/ /\ req[w].op = "logout"
          /\ req[w].status = 200
          /\ cookie' = Null
    /\ pc' = [pc EXCEPT ![w] = "idle"]
    /\ req' = [req EXCEPT ![w] = Idle]
    /\ UNCHANGED <<users, refresh_tokens, now, accessIssued>>

\* Requests one at a time, of the client and of everybody else.  Respond
\* is a response that goes to somebody else, or one to the client that
\* is lost on its way (the connection drops, or the worker dies once the
\* handler has committed).
\* Every client is a client of one user.
ClientEmail == "a@x.com"
ClientBegin(w) ==
    \/ \E password \in Passwords : Login(w, ClientEmail, password)
    \/ \E password \in SignupPasswords : SignupCheck(w, ClientEmail, password)
    \/ \E refresh_token \in Secrets : RefreshValidate(w, refresh_token)
    \/ \E token_id \in TokenIds : RevokeGet(w, token_id)
    \/ \E token \in accessIssued \cup {GarbageToken} : Logout(w, token)

ClientNext ==
    \/ Tick
    \/ ClientBegin(SeqWorker)
    \/ Step(SeqWorker)
    \/ ClientReceive(SeqWorker)

ClientSpec == Init /\ [][ClientNext]_vars

\* ------------------------------------------------------------ tokens
\* The access-token functions of security.py on their own: a caller
\* creates a token, or is handed a token string from elsewhere, keeps it
\* while time passes, and decodes it.
Subjects == {UuidStr(1), <<"text", "">>}
Lifetimes == {Null} \cup {At(m) : m \in 0..MaxTime}
Issuers == {Null, <<"chat">>}

\* Token strings from elsewhere: every combination of a present, absent or
\* foreign value for each claim and for the signature.
NoClaims == [c \in {} |-> c]
Optional(name, values) == {NoClaims} \cup {Claim(name, v) : v \in values}
TokenInputs ==
    {sub @@ exp @@ typ @@ iss @@ sig :
        sub \in Optional("sub", {UuidStr(1)}),
        exp \in Optional("exp", 1..(MaxTime + 1)),
        typ \in Optional("typ", {"access", "refresh"}),
        iss \in Optional("iss", {"chat", "other"}),
        sig \in Optional("sig", {"JWT_ACCESS_SECRET", "other key"})}

TokenInit ==
    /\ users = <<>>
    /\ refresh_tokens = <<>>
    /\ now = 0
    /\ pc = [w \in Workers |-> "idle"]
    /\ req = [w \in Workers |-> Idle]
    /\ accessIssued = {}
    /\ settings \in [JWT_ISSUER : Issuers]
    /\ lifespan = Serving
    /\ cookie = Null

\* Time passes while a caller holds a token.
TokenTick ==
    /\ now < MaxTime
    /\ now' = now + 1
    /\ UNCHANGED <<users, refresh_tokens, pc, req, accessIssued, settings,
                 lifespan, cookie>>

\* create_access_token(subject, expire_minutes)
TokenCreate(w, subject, expire_minutes) ==
    /\ pc[w] = "idle"
    /\ pc' = [pc EXCEPT ![w] = "token"]
    /\ req' = [req EXCEPT ![w] =
                 [op |-> "create",
                  token |-> create_access_token_with(subject, expire_minutes,
                                                     NoClaims),
                  created |-> <<[subject |-> subject, issued_at |-> now,
                                 expire_minutes |-> expire_minutes]>>]]
    /\ UNCHANGED <<users, refresh_tokens, now, accessIssued, settings,
                 lifespan, cookie>>

\* create_access_token(subject, expire_minutes, additional_claims): extra
\* claims a caller passes, a new claim or one under a name the function
\* has set itself.
AdditionalClaims ==
    {Claim("role", "admin"), Claim("typ", "refresh"),
     Claim("sub", UuidStr(2)), Claim("exp", MaxTime + 2)}
TokenCreateWith(w, subject, expire_minutes, additional_claims) ==
    /\ pc[w] = "idle"
    /\ pc' = [pc EXCEPT ![w] = "token"]
    /\ req' = [req EXCEPT ![w] =
                 [op |-> "create",
                  token |-> create_access_token_with(subject, expire_minutes,
                                                     additional_claims),
                  created |-> <<>>,
                  call |-> [subject |-> subject, issued_at |-> now,
                            expire_minutes |-> expire_minutes,
                            additional_claims |-> additional_claims]]]
    /\ UNCHANGED <<users, refresh_tokens, now, accessIssued, settings,
                 lifespan, cookie>>

\* The caller holds a token string it did not get from create_access_token.
TokenPresent(w, token) ==
    /\ pc[w] = "idle"
    /\ pc' = [pc EXCEPT ![w] = "token"]
    /\ req' = [req EXCEPT ![w] =
                 [op |-> "present", token |-> token, created |-> <<>>]]
    /\ UNCHANGED <<users, refresh_tokens, now, accessIssued, settings,
                 lifespan, cookie>>

\* decode_access_token(token)
TokenDecode(w) ==
    /\ pc[w] = "token"
    /\ pc' = [pc EXCEPT ![w] = "done"]
    /\ req' = [req EXCEPT ![w] =
                 [op |-> "decode", input |-> req[w].token,
                  created |-> req[w].created, at |-> now,
                  result |-> decode_access_token(req[w].token)]]
    /\ UNCHANGED <<users, refresh_tokens, now, accessIssued, settings,
                 lifespan, cookie>>

TokenNext ==
    \/ TokenTick
    \/ \E subject \in Subjects, expire_minutes \in Lifetimes :
          TokenCreate(SeqWorker, subject, expire_minutes)
    \/ \E subject \in Subjects, expire_minutes \in Lifetimes,
          additional_claims \in AdditionalClaims :
          TokenCreateWith(SeqWorker, subject, expire_minutes, additional_claims)
    \/ \E token \in TokenInputs : TokenPresent(SeqWorker, token)
    \/ TokenDecode(SeqWorker)
    \/ Respond(SeqWorker)

TokenSpec == TokenInit /\ [][TokenNext]_vars

\* ------------------------------------------------------------ properties
\* The ids of the rows of a table that hold the fingerprint of secret s.
RowsOf(table, s) ==
    {i \in DOMAIN table : table[i].token_hash = hash_refresh_token(s)}

\* Secret s is usable at time t: a row holds its fingerprint, is not
\* revoked and has not expired.
Usable(table, t, s) ==
    \E i \in DOMAIN table :
        /\ table[i].token_hash = hash_refresh_token(s)
        /\ table[i].revoked_at = Null
        /\ table[i].expires_at > t

\* The rows that a successful rotation of row i created.
Rotations(i) ==
    {j \in DOMAIN refresh_tokens : refresh_tokens[j].rotated_from = i}

\* Worker w holds the response of a request to op.
Done(w, op) == pc[w] = "done" /\ req[w].op = op

InvalidOrExpired(response) ==
    /\ response.status = 401
    /\ response.detail = "Invalid or expired refresh token"
    /\ response.refresh = <<>>
    /\ response.access = <<>>

\* C1: in a sequential history a refresh secret R rotates at most once;
\* once it has, a later refresh_tokens(R) that fails fails with the
\* invalid-or-expired error (and it cannot succeed: that would be a second
\* rotation); the secret a successful call returns differs from R.
C1_RotationSingleUse ==
    /\ \A i \in DOMAIN refresh_tokens : Cardinality(Rotations(i)) <= 1
    /\ \A w \in Workers :
          Done(w, "refresh") =>
             /\ req[w].status = 200 => req[w].refresh # <<req[w].input>>
             /\ (req[w].status # 200
                 /\ \E i \in RowsOf(refresh_tokens, req[w].input) :
                       Rotations(i) # {})
                => InvalidOrExpired(req[w])

\* C1 witness: a secret that was rotated is presented again and rejected.
C1_Witness ==
    \E w \in Workers :
       /\ Done(w, "refresh")
       /\ req[w].status = 401
       /\ \E i \in RowsOf(refresh_tokens, req[w].input) : Rotations(i) # {}

\* C2: two concurrent refresh_tokens calls with the same active secret
\* never both succeed: no row is rotated twice.
C2_ConcurrentRotationOnce ==
    \A i \in DOMAIN refresh_tokens :
       \A j, k \in Rotations(i) : j = k

\* C3: rotation is atomic in the committed store: a replacement row exists
\* only with its presented row revoked and owned by the same user, and
\* while a rotation has not committed (so also after a crash inside it)
\* its presented row is not revoked and has no replacement.
C3_RotationAtomic ==
    /\ \A j \in DOMAIN refresh_tokens :
          LET i == refresh_tokens[j].rotated_from
          IN  i # 0 =>
                 /\ i \in DOMAIN refresh_tokens
                 /\ refresh_tokens[i].revoked_at # Null
                 /\ refresh_tokens[i].user_id = refresh_tokens[j].user_id
    /\ \A w \in Workers :
          pc[w] = "refresh_commit" =>
             /\ refresh_tokens[req[w].stored_token].revoked_at = Null
             /\ Rotations(req[w].stored_token) = {}

\* C3 witness: one rotation has committed and another is about to commit.
C3_Witness ==
    /\ \E j \in DOMAIN refresh_tokens : refresh_tokens[j].rotated_from # 0
    /\ \E w \in Workers : pc[w] = "refresh_commit"

\* C4: a secret whose row is revoked or expired is never usable again, no
\* row is deleted, revoked_at never returns to NULL and expires_at is never
\* extended.  (A step that leaves the table and the clock as they are
\* changes none of this.)
C4_Step ==
    \/ UNCHANGED <<refresh_tokens, now>>
    \/ /\ \A s \in Secrets :
             ((\E i \in DOMAIN refresh_tokens :
                   refresh_tokens[i].token_hash = hash_refresh_token(s))
              /\ ~Usable(refresh_tokens, now, s))
                => ~Usable(refresh_tokens', now', s)
       /\ \A i \in DOMAIN refresh_tokens :
             /\ i \in DOMAIN refresh_tokens'
             /\ refresh_tokens[i].revoked_at # Null
                   => refresh_tokens'[i].revoked_at # Null
             /\ refresh_tokens'[i].expires_at <= refresh_tokens[i].expires_at

C4_UnusableForever == [][C4_Step]_vars

\* C4 witness: a revoked row and an expired one, and their user has
\* logged in again since.
C4_Witness ==
    \E i, j, k \in DOMAIN refresh_tokens :
       /\ refresh_tokens[i].revoked_at # Null
       /\ refresh_tokens[j].revoked_at = Null
       /\ refresh_tokens[j].expires_at <= now
       /\ k > i /\ k > j
       /\ refresh_tokens[k].user_id = refresh_tokens[i].user_id
       /\ refresh_tokens[k].user_id = refresh_tokens[j].user_id
       /\ Usable(refresh_tokens, now, CHOOSE s \in Secrets :
                                         k \in RowsOf(refresh_tokens, s))

\* C5: expiry is enforced at validation.  A refresh_tokens call passes
\* validation only on a row that expires strictly after the current time;
\* when every row of the secret expires at or before it, revoked or not,
\* the call fails with the invalid-or-expired error and writes nothing.
\* A rotation that committed had validated before its row expired.
C5_Step ==
    \A w \in Workers :
       (pc[w] = "idle" /\ pc'[w] # "idle" /\ req'[w].op = "refresh") =>
          LET rows == RowsOf(refresh_tokens, req'[w].input)
          IN  /\ pc'[w] = "refresh_commit" =>
                    /\ req'[w].stored_token \in rows
                    /\ refresh_tokens[req'[w].stored_token].expires_at > now
              /\ (\A i \in rows : refresh_tokens[i].expires_at <= now) =>
                    /\ pc'[w] = "done"
                    /\ InvalidOrExpired(req'[w])
                    /\ refresh_tokens' = refresh_tokens

C5_Rotated ==
    \A j \in DOMAIN refresh_tokens :
       LET i == refresh_tokens[j].rotated_from
       IN  i # 0 => refresh_tokens[i].expires_at > refresh_tokens[i].revoked_at[1]

C5_ExpiryEnforced == [][C5_Step]_vars /\ []C5_Rotated

\* C5 witness: a secret is rejected at the very time its row, never
\* revoked, expires.
C5_Witness ==
    \E w \in Workers :
       /\ Done(w, "refresh")
       /\ InvalidOrExpired(req[w])
       /\ \E i \in RowsOf(refresh_tokens, req[w].input) :
             /\ refresh_tokens[i].revoked_at = Null
             /\ refresh_tokens[i].expires_at = now

\* C6: revoke_all_user_tokens(user_id) revokes exactly the user's active
\* (non-revoked, non-expired) rows and returns their number.
C6_RevokeAllExactlyActive ==
    \A w \in Workers :
       pc[w] = "revoke_all_commit" =>
          req[w].tokens =
             {i \in DOMAIN refresh_tokens :
                 /\ refresh_tokens[i].user_id = req[w].user_id
                 /\ refresh_tokens[i].revoked_at = Null
                 /\ refresh_tokens[i].expires_at > req[w].revoked_at[1]}

\* C7: once a logout of a user has completed, no row of that user is
\* usable, so every refresh secret issued to the user before fails.
C7_LogoutRevokesAll ==
    \A w \in Workers :
       (Done(w, "logout") /\ req[w].status = 200) =>
          \A i \in DOMAIN refresh_tokens :
             refresh_tokens[i].user_id = ParseUuid(req[w].input.sub) =>
                \/ refresh_tokens[i].revoked_at # Null
                \/ refresh_tokens[i].expires_at <= now

\* C7 witness: a logout that revoked two or more rows has completed.
C7_Witness ==
    \E w \in Workers :
       /\ Done(w, "logout")
       /\ req[w].status = 200
       /\ req[w].count >= 2

\* C8: the secret a handler returns is usable at once: in the state the
\* issuing step leaves, a row with its fingerprint is neither revoked nor
\* expired and belongs to the user it was issued to; a rotation's new row
\* has the owner of the row it replaces.
C8_Step ==
    \A w \in Workers :
       (pc[w] # "done" /\ pc'[w] = "done" /\ req'[w].refresh # <<>>) =>
          LET s == req'[w].refresh[1]
              rows == RowsOf(refresh_tokens', s)
          IN  /\ Usable(refresh_tokens', now', s)
              /\ \A j \in rows :
                    IF req'[w].op = "refresh"
                    THEN /\ refresh_tokens'[j].rotated_from = req[w].stored_token
                         /\ refresh_tokens'[j].user_id =
                               refresh_tokens[req[w].stored_token].user_id
                    ELSE /\ refresh_tokens'[j].user_id \in DOMAIN users'
                         /\ users'[refresh_tokens'[j].user_id].email = req'[w].input

C8_IssuedValidates == [][C8_Step]_vars

\* C8 witness: a rotation has returned a new secret.
C8_Witness ==
    \E w \in Workers :
       /\ Done(w, "refresh")
       /\ req[w].status = 200
       /\ req[w].refresh # <<>>

\* C9: no two rows share a token_hash, so at most one active row matches
\* any raw secret.
C9_TokenHashUnique ==
    /\ \A i, j \in DOMAIN refresh_tokens :
          refresh_tokens[i].token_hash = refresh_tokens[j].token_hash => i = j
    /\ \A s \in Secrets :
          Cardinality({i \in RowsOf(refresh_tokens, s) :
                          /\ refresh_tokens[i].revoked_at = Null
                          /\ refresh_tokens[i].expires_at > now}) <= 1

\* C9 witness: a handler drew a secret whose fingerprint a row holds, and
\* the store refused the second row.
C9_Witness ==
    \E w \in Workers :
       /\ pc[w] = "done"
       /\ req[w].status = 500
       /\ req[w].detail = TokenHashConflict
       /\ Len(refresh_tokens) >= 2

\* C10: a signup with an email some user holds fails with the 409 conflict
\* and changes nothing; a signup that gets past the pre-check had a fresh
\* email, and it ends with 201 and both tokens for the user created with
\* that email, unless the store refuses the drawn refresh secret.
C10_Step ==
    \A w \in Workers :
       (pc[w] = "idle" /\ pc'[w] # "idle" /\ req'[w].op = "signup") =>
          IF \E i \in DOMAIN users : users[i].email = req'[w].input
          THEN /\ pc'[w] = "done"
               /\ req'[w].status = 409
               /\ req'[w].detail = "Email already registered"
               /\ req'[w].access = <<>> /\ req'[w].refresh = <<>>
               /\ UNCHANGED <<users, refresh_tokens, accessIssued>>
          ELSE pc'[w] = "signup_insert"

C10_Done ==
    \A w \in Workers :
       (Done(w, "signup") /\ req[w].status # 409) =>
          /\ \E i \in DOMAIN users : users[i].email = req[w].input
          /\ \/ /\ req[w].status = 201
                /\ req[w].access # <<>>
                /\ req[w].refresh # <<>>
                /\ \E j \in RowsOf(refresh_tokens, req[w].refresh[1]) :
                      users[refresh_tokens[j].user_id].email = req[w].input
             \/ /\ req[w].status = 500
                /\ req[w].detail = TokenHashConflict

C10_SignupDuplicate == [][C10_Step]_vars /\ []C10_Done

\* C10 witness: a second signup with a registered email was refused
\* after the first one had succeeded.
C10_Witness ==
    \E w \in Workers :
       /\ Done(w, "signup")
       /\ req[w].status = 409
       /\ \E i \in DOMAIN users, j \in DOMAIN refresh_tokens :
             /\ users[i].email = req[w].input
             /\ refresh_tokens[j].user_id = i

\* C11: when signups with the same email run concurrently, at most one
\* user holds the email afterwards, and the caller that loses is told of
\* the duplicate email (the 409 conflict), never of the store's failed
\* uniqueness constraint on users.email.
C11_ConcurrentSignupConflict ==
    /\ \A i, j \in DOMAIN users : users[i].email = users[j].email => i = j
    /\ \A w \in Workers :
          (Done(w, "signup") /\ req[w].detail = EmailConflict) =>
             req[w].status = 409

\* C12: once a user was created by a signup with an email and a password,
\* a login with the same email and password succeeds with both tokens
\* (unless the store refuses the drawn refresh secret); the access token a
\* login returns resolves through get_current_user to the user holding
\* that email as long as it has not expired, and so does every unexpired
\* access token GET /me is called with.
C12_Step ==
    \A w \in Workers, email \in Emails, password \in Passwords :
       (/\ pc[w] = "idle" /\ pc'[w] = "done"
        /\ req'[w].op = "login" /\ req'[w].input = email
        /\ Login(w, email, password)
        /\ \E i \in DOMAIN users :
              /\ users[i].email = email
              /\ \E salt \in Salts :
                    users[i].password = hash_password(password, salt))
       => \/ /\ req'[w].status = 200
             /\ req'[w].access # <<>>
             /\ req'[w].refresh # <<>>
          \/ /\ req'[w].status = 500
             /\ req'[w].detail = TokenHashConflict

C12_Resolves ==
    \A w \in Workers :
       /\ (Done(w, "login") /\ req[w].status = 200
           /\ req[w].access[1].exp > now) =>
             /\ get_current_user(req[w].access[1]).ok
             /\ get_current_user(req[w].access[1]).user.email = req[w].input
       /\ (Done(w, "me") /\ req[w].input \in accessIssued
           /\ req[w].input.exp > now) =>
             /\ req[w].status = 200
             /\ req[w].user[1].id = ParseUuid(req[w].input.sub)
             /\ users[req[w].user[1].id].email = req[w].user[1].email

C12_SignupThenLogin == [][C12_Step]_vars /\ []C12_Resolves

\* C12 witness: a login of a signed-up user has succeeded at a later time
\* than the signup, and its access token resolves to that user.
C12_Witness ==
    \E w \in Workers :
       /\ Done(w, "login")
       /\ req[w].status = 200
       /\ req[w].access[1].iat > 0
       /\ get_current_user(req[w].access[1]).ok
       /\ get_current_user(req[w].access[1]).user.email = req[w].input

\* C13: a login with an email no user holds and a login with a known
\* email and a password other than the user's get one and the same
\* response (401, "Invalid credentials", no tokens), each after exactly one
\* password hash computation, and neither writes a refresh record, a user
\* or an access token.
C13_Step ==
    \A w \in Workers, email \in Emails, password \in Passwords :
       (/\ pc[w] = "idle" /\ pc'[w] = "done"
        /\ req'[w].op = "login" /\ req'[w].input = email
        /\ Login(w, email, password)
        /\ \A i \in DOMAIN users :
              users[i].email = email =>
                 \A salt \in Salts :
                    users[i].password # hash_password(password, salt))
       => /\ req'[w] = [Response("login", email, 401, "Invalid credentials",
                                 <<>>, <<>>, 0)
                           EXCEPT !.raised = req'[w].raised, !.hash_ops = 1]
          /\ req'[w].raised # NoError
          /\ UNCHANGED <<users, refresh_tokens, accessIssued>>

C13_LoginFailuresAlike == [][C13_Step]_vars

\* C13 witness: a login with an email nobody holds has been refused while
\* another email is registered.
C13_Witness ==
    \E w \in Workers :
       /\ Done(w, "login")
       /\ req[w].status = 401
       /\ req[w].hash_ops = 1
       /\ users # <<>>
       /\ \A i \in DOMAIN users : users[i].email # req[w].input

\* C14: a refresh with a secret that is not usable gets one and the same
\* response (401, "Invalid or expired refresh token", no tokens) whether
\* no record holds its fingerprint, its record is revoked, or its record
\* has expired.
C14_Step ==
    \A w \in Workers :
       (/\ pc[w] = "idle" /\ pc'[w] # "idle" /\ req'[w].op = "refresh"
        /\ ~Usable(refresh_tokens, now, req'[w].input))
       => /\ pc'[w] = "done"
          /\ req'[w] = [Response("refresh", req'[w].input, 401,
                                 "Invalid or expired refresh token",
                                 <<>>, <<>>, 0)
                           EXCEPT !.raised = HTTPException(401,
                                       "Invalid or expired refresh token")]

C14_RefreshFailuresAlike == [][C14_Step]_vars

\* C14 witness: a secret whose record a logout or a revocation revoked
\* has been refused while another secret's record has expired unrevoked.
C14_Witness ==
    \E w \in Workers :
       /\ Done(w, "refresh")
       /\ req[w].status = 401
       /\ \E i \in RowsOf(refresh_tokens, req[w].input) :
             /\ refresh_tokens[i].revoked_at # Null
             /\ Rotations(i) = {}
       /\ \E j \in DOMAIN refresh_tokens :
             /\ refresh_tokens[j].revoked_at = Null
             /\ refresh_tokens[j].expires_at <= now

\* C15: a token made by create_access_token(subject, ttl) and decoded
\* before its lifetime has elapsed gives claims with sub = subject and
\* typ = "access"; decoded once the lifetime has elapsed it is refused
\* with an InvalidTokenError.
C15_RoundTrip ==
    \A w \in Workers :
       (Done(w, "decode") /\ req[w].created # <<>>) =>
          LET made == req[w].created[1]
              ttl == IF made.expire_minutes = Null
                     THEN JWT_ACCESS_EXPIRES_MINUTES
                     ELSE made.expire_minutes[1]
          IN  IF req[w].at < made.issued_at + ttl
              THEN /\ req[w].result.ok
                   /\ req[w].result.payload.sub = made.subject
                   /\ req[w].result.payload.typ = "access"
              ELSE /\ ~req[w].result.ok
                   /\ req[w].result.raised.class = "InvalidTokenError"

\* C15 witness: a token created with an explicit lifetime of 0 has been
\* refused, under a configuration with an issuer.
C15_Witness ==
    \E w \in Workers :
       /\ Done(w, "decode")
       /\ req[w].created # <<>>
       /\ req[w].created[1].expire_minutes = At(0)
       /\ ~req[w].result.ok
       /\ settings.JWT_ISSUER # Null

\* C16: decode_access_token refuses every token with a bad or missing
\* signature, a missing exp or sub, a passed exp, a missing or wrong iss
\* when an issuer is configured, or a typ other than "access", and every
\* refusal is the same InvalidTokenError with the same message.
C16_Defective(token, t) ==
    \/ "sig" \notin DOMAIN token
    \/ token.sig # "JWT_ACCESS_SECRET"
    \/ "exp" \notin DOMAIN token
    \/ "sub" \notin DOMAIN token
    \/ token.exp <= t
    \/ settings.JWT_ISSUER # Null /\ "iss" \notin DOMAIN token
    \/ settings.JWT_ISSUER # Null /\ token.iss # settings.JWT_ISSUER[1]
    \/ "typ" \notin DOMAIN token
    \/ token.typ # "access"

C16_DecodeRejectsAlike ==
    \A w \in Workers :
       Done(w, "decode") =>
          /\ req[w].result.ok <=> ~C16_Defective(req[w].input, req[w].at)
          /\ ~req[w].result.ok =>
                req[w].result.raised =
                   InvalidTokenError("Invalid or expired token")

\* C17: resolving the caller's identity leaves every refresh record as it
\* was, and its result is fixed by the token, the clock and the users
\* alone: a token signed by the service that has not expired resolves to
\* the user it names whatever the state of that user's refresh records,
\* and any other token is refused.
C17_Step ==
    \A w \in Workers :
       (pc[w] = "idle" /\ pc'[w] = "done" /\ req'[w].op = "me") =>
          /\ UNCHANGED <<users, refresh_tokens, accessIssued>>
          /\ LET token == req'[w].input
             IN  IF /\ token.sig = "JWT_ACCESS_SECRET"
                    /\ token.typ = "access"
                    /\ token.exp > now
                    /\ ParseUuid(token.sub) \in DOMAIN users
                 THEN /\ req'[w].status = 200
                      /\ req'[w].user =
                            <<[id |-> ParseUuid(token.sub),
                               email |-> users[ParseUuid(token.sub)].email]>>
                 ELSE /\ req'[w].status # 200
                      /\ req'[w].user = Null

C17_IdentityLeavesRefreshStore == [][C17_Step]_vars

\* C17 witness: a token has resolved to a user none of whose refresh
\* records is usable any more, one of them revoked.
C17_Witness ==
    \E w \in Workers :
       /\ Done(w, "me")
       /\ req[w].status = 200
       /\ \E i \in DOMAIN refresh_tokens :
             /\ refresh_tokens[i].user_id = req[w].user[1].id
             /\ refresh_tokens[i].revoked_at # Null
       /\ \A i \in DOMAIN refresh_tokens :
             refresh_tokens[i].user_id = req[w].user[1].id =>
                \/ refresh_tokens[i].revoked_at # Null
                \/ refresh_tokens[i].expires_at <= now

\* C18: every failure of login, signup, refresh and identity resolution
\* is raised by the service as one of the domain errors
\* InvalidCredentials, DuplicateEmail, InvalidToken or UserNotFound, never
\* as an HTTP response of its own.  (The store's own constraint failures
\* are left aside.)
C18_ServiceRaisesDomainErrors ==
    \A w \in Workers :
       (/\ pc[w] = "done"
        /\ req[w].op \in {"login", "signup", "refresh", "me", "logout"}
        /\ req[w].raised.class \notin {"none", "IntegrityError"})
       => req[w].raised.class \in {"InvalidCredentialsError",
                                   "DuplicateEmailError", "InvalidTokenError",
                                   "UserNotFoundError"}

\* C19: revoke_refresh_token on an id of no record or of a revoked record
\* writes nothing and returns without an error; on an active record it
\* sets that record's revoked_at and nothing else, so a second call right
\* after it finds the record revoked and is the no-op; a revoked_at that
\* is set is never overwritten.
C19_Step ==
    /\ \A w \in Workers :
          (pc[w] = "idle" /\ pc'[w] # "idle" /\ req'[w].op = "revoke") =>
             LET id == req'[w].input
             IN  /\ UNCHANGED <<users, refresh_tokens, accessIssued>>
                 /\ IF \/ id \notin DOMAIN refresh_tokens
                       \/ refresh_tokens[id].revoked_at # Null
                    THEN /\ pc'[w] = "done"
                         /\ req'[w].status = 200
                         /\ req'[w].raised = NoError
                    ELSE pc'[w] = "revoke_commit"
    /\ \A w \in Workers :
          (pc[w] = "revoke_commit" /\ pc'[w] = "done") =>
             /\ refresh_tokens[req[w].input].revoked_at = Null
             /\ refresh_tokens' =
                   [refresh_tokens EXCEPT ![req[w].input].revoked_at = At(now)]
             /\ req'[w].status = 200
             /\ req'[w].raised = NoError
             /\ UNCHANGED <<users, accessIssued>>
    /\ \A i \in DOMAIN refresh_tokens :
          refresh_tokens[i].revoked_at # Null =>
             refresh_tokens'[i].revoked_at = refresh_tokens[i].revoked_at

C19_RevokeIdempotent == [][C19_Step]_vars

\* C19 witness: a record revoked at an earlier time has been revoked
\* again, to no effect.
C19_Witness ==
    \E w \in Workers :
       /\ Done(w, "revoke")
       /\ req[w].detail = "no-op"
       /\ req[w].input \in DOMAIN refresh_tokens
       /\ refresh_tokens[req[w].input].revoked_at # Null
       /\ refresh_tokens[req[w].input].revoked_at[1] < now

\* C20: a refresh that fails writes nothing: no step of a refresh_tokens
\* call other than its successful commit changes a refresh record, a user
\* or the tokens handed out.
C20_Step ==
    \A w \in Workers :
       (/\ pc'[w] # pc[w]
        /\ pc'[w] \in {"refresh_commit", "done"}
        /\ req'[w].op = "refresh"
        /\ ~(pc'[w] = "done" /\ req'[w].status = 200))
       => UNCHANGED <<users, refresh_tokens, accessIssued>>

C20_FailedRefreshMutatesNothing == [][C20_Step]_vars

\* C20 witness: a refresh has failed after its secret passed validation,
\* and the record of the secret is still usable.
C20_Witness ==
    \E w \in Workers :
       /\ Done(w, "refresh")
       /\ req[w].status # 200
       /\ Usable(refresh_tokens, now, req[w].input)

\* C21: signup is atomic: once no signup is between its commits any more
\* (it has answered, or its worker has died), every user in the store has
\* the refresh record its signup issued; no user is stored without one.
C21_SignupAtomic ==
    (\A w \in Workers : pc[w] \notin {"signup_insert", "signup_issue"}) =>
       \A i \in DOMAIN users :
          \E j \in DOMAIN refresh_tokens :
             /\ refresh_tokens[j].user_id = users[i].id
             /\ refresh_tokens[j].rotated_from = 0

\* C22: no step writes to a refresh record that is already revoked or
\* expired, and a record is active (revoked_at null, expires_at in the
\* future) when it is created.
C22_Step ==
    /\ \A i \in DOMAIN refresh_tokens :
          (\/ refresh_tokens[i].revoked_at # Null
           \/ refresh_tokens[i].expires_at <= now)
          => /\ i \in DOMAIN refresh_tokens'
             /\ refresh_tokens'[i] = refresh_tokens[i]
    /\ \A i \in DOMAIN refresh_tokens' \ DOMAIN refresh_tokens :
          /\ refresh_tokens'[i].revoked_at = Null
          /\ refresh_tokens'[i].expires_at > now'

C22_TerminalStatesKept == [][C22_Step]_vars

\* C23: refresh records are append-only apart from revocation: no step
\* deletes a record, and the only field of a stored record a step changes
\* is revoked_at; id (the record's position), user_id, token_hash and
\* expires_at keep the values given at creation.
C23_Step ==
    \/ UNCHANGED refresh_tokens
    \/ /\ Len(refresh_tokens') >= Len(refresh_tokens)
       /\ \A i \in DOMAIN refresh_tokens :
             /\ refresh_tokens'[i].user_id = refresh_tokens[i].user_id
             /\ refresh_tokens'[i].token_hash = refresh_tokens[i].token_hash
             /\ refresh_tokens'[i].expires_at = refresh_tokens[i].expires_at

C23_AppendOnly == [][C23_Step]_vars

\* C23 witness: a record was revoked before its expiry and a later record
\* stands after it; the revoked one still has the lifetime it was given.
C23_Witness ==
    \E i, j \in DOMAIN refresh_tokens :
       /\ i < j
       /\ refresh_tokens[i].revoked_at # Null
       /\ refresh_tokens[i].revoked_at[1] < refresh_tokens[i].expires_at
       /\ refresh_tokens[j].revoked_at = Null

\* C24: every domain error that reaches an endpoint is translated there:
\* a request whose service call raised InvalidCredentials, InvalidToken,
\* DuplicateEmail or UserNotFound ends with a 401 or 409 response, at
\* every endpoint, identity resolution of /me and /logout included.
C24_BoundaryTranslates ==
    \A w \in Workers :
       (/\ pc[w] = "done"
        /\ req[w].raised.class \in {"InvalidCredentialsError",
                                    "InvalidTokenError", "DuplicateEmailError",
                                    "UserNotFoundError"})
       => req[w].status \in {401, 409}

\* C25: whatever additional_claims a caller passes, the token that
\* create_access_token returns has typ = "access", sub = the subject and
\* exp = the issue time plus the lifetime: extra claims cannot replace them.
C25_FixedClaimsKept ==
    \A w \in Workers :
       (pc[w] = "token" /\ req[w].op = "create" /\ req[w].created = <<>>) =>
          LET call == req[w].call
              ttl == IF call.expire_minutes = Null
                     THEN JWT_ACCESS_EXPIRES_MINUTES
                     ELSE call.expire_minutes[1]
          IN  /\ req[w].token.typ = "access"
              /\ req[w].token.sub = call.subject
              /\ req[w].token.exp = call.issued_at + ttl

\* C26: expiry is exclusive at the boundary: a token that is sound in
\* every other respect and carries exp = E is accepted by
\* decode_access_token at every time now < E and refused at now = E and
\* at every later time; the exp and iat a created token carries are whole
\* numbers.
C26_SoundButForExp(token) ==
    /\ {"sig", "sub", "exp", "typ"} \subseteq DOMAIN token
    /\ token.sig = "JWT_ACCESS_SECRET"
    /\ token.typ = "access"
    /\ settings.JWT_ISSUER # Null =>
          /\ "iss" \in DOMAIN token
          /\ token.iss = settings.JWT_ISSUER[1]

C26_ExpiryExclusive ==
    \A w \in Workers :
       /\ (Done(w, "decode") /\ C26_SoundButForExp(req[w].input)) =>
             (req[w].result.ok <=> req[w].at < req[w].input.exp)
       /\ (pc[w] = "token" /\ req[w].op = "create") =>
             /\ req[w].token.iat \in Nat
             /\ req[w].token.exp \in Nat

\* C26 witness: a token sound but for its expiry was decoded at the very
\* time of its exp, after being issued earlier, and was refused.
C26_Witness ==
    \E w \in Workers :
       /\ Done(w, "decode")
       /\ C26_SoundButForExp(req[w].input)
       /\ req[w].created # <<>>
       /\ req[w].created[1].issued_at < req[w].at
       /\ req[w].at = req[w].input.exp
       /\ ~req[w].result.ok

\* C27: the outcome of decode_access_token is fixed by the token, the
\* configuration and the current time, whatever the store holds: in every
\* state each access token the service has issued decodes to its own
\* claims while now < exp and is refused afterwards, so an unexpired token
\* issued before a logout or a rotation still decodes after it.
C27_DecodeIgnoresStore ==
    \A token \in accessIssued :
       decode_access_token(token) =
          IF now < token.exp
          THEN [ok |-> TRUE,
                payload |-> [c \in DOMAIN token \ {"sig"} |-> token[c]]]
          ELSE [ok |-> FALSE,
                raised |-> InvalidTokenError("Invalid or expired token")]

\* C27 witness: a logout has just revoked every refresh record of a user,
\* one of them made by a rotation, and an access token issued to that user
\* before the logout still decodes.
C27_Witness ==
    \E w \in Workers, token \in accessIssued :
       /\ Done(w, "logout")
       /\ req[w].status = 200
       /\ req[w].input = token
       /\ AccessTokenValid(token)
       /\ \E i \in DOMAIN refresh_tokens :
             /\ UuidStr(refresh_tokens[i].user_id) = token.sub
             /\ refresh_tokens[i].rotated_from # 0
       /\ \A i \in DOMAIN refresh_tokens :
             UuidStr(refresh_tokens[i].user_id) = token.sub =>
                refresh_tokens[i].revoked_at # Null

\* C28: ping_db retries a failing connectivity check up to 3 times, with
\* waits of 2s, 4s and 8s between the attempts; it returns as soon as an
\* attempt succeeds, and gives up (re-raising the failure) once the
\* retries are exhausted: after the third retry, with all three waits
\* slept.
C28_PingRetriesThrice ==
    /\ \E n \in 0..3 : lifespan.slept = SubSeq(<<2, 4, 8>>, 1, n)
    /\ lifespan.state = "failed" => lifespan.slept = <<2, 4, 8>>
    /\ lifespan.state = "serving" =>
          Len(lifespan.slept) = lifespan.attempt_number - 1

\* C29: rotation and logout are scoped.  A successful refresh_tokens(R)
\* revokes the record of R, adds exactly one new record for the same user
\* and leaves every other record as it was, so the user has as many
\* active records after it as before; revoke_all_user_tokens(u) changes
\* no record of another user.
C29_Active(table, user_id) ==
    {i \in DOMAIN table :
        /\ table[i].user_id = user_id
        /\ table[i].revoked_at = Null
        /\ table[i].expires_at > now}

C29_Step ==
    /\ \A w \in Workers :
          (/\ pc[w] = "refresh_commit"
           /\ pc'[w] = "done"
           /\ req'[w].status = 200) =>
             LET old == req[w].stored_token
                 new == Len(refresh_tokens) + 1
             IN  /\ refresh_tokens[old].token_hash =
                       hash_refresh_token(req[w].input)
                 /\ DOMAIN refresh_tokens' = DOMAIN refresh_tokens \cup {new}
                 /\ refresh_tokens'[old] =
                       [refresh_tokens[old] EXCEPT !.revoked_at = At(now)]
                 /\ refresh_tokens'[new].user_id = refresh_tokens[old].user_id
                 /\ \A i \in DOMAIN refresh_tokens \ {old} :
                       refresh_tokens'[i] = refresh_tokens[i]
                 /\ Cardinality(C29_Active(refresh_tokens',
                                           refresh_tokens[old].user_id)) =
                    Cardinality(C29_Active(refresh_tokens,
                                           refresh_tokens[old].user_id))
    /\ \A w \in Workers :
          (pc[w] = "revoke_all_commit" /\ pc'[w] = "done") =>
             /\ DOMAIN refresh_tokens' = DOMAIN refresh_tokens
             /\ \A i \in DOMAIN refresh_tokens :
                   refresh_tokens[i].user_id # req[w].user_id =>
                      refresh_tokens'[i] = refresh_tokens[i]

C29_RotationAndLogoutScoped == [][C29_Step]_vars

\* C29 witness: a logout has revoked a user's records, one of them made
\* by a rotation, while a record of another user is still active.
C29_Witness ==
    \E w \in Workers :
       /\ Done(w, "logout")
       /\ req[w].count > 0
       /\ \E i, j, k \in DOMAIN refresh_tokens :
             /\ refresh_tokens[i].revoked_at = At(now)
             /\ refresh_tokens[j].user_id = refresh_tokens[i].user_id
             /\ refresh_tokens[j].rotated_from # 0
             /\ refresh_tokens[k].user_id # refresh_tokens[i].user_id
             /\ refresh_tokens[k].revoked_at = Null
             /\ refresh_tokens[k].expires_at > now

\* C30: in every state each refresh record's user_id is the id of a stored
\* user, and stored users keep their ids; so a refresh whose secret passed
\* validation never ends in the "User not found" branch.
C30_RecordsHaveUsers ==
    /\ \A i \in DOMAIN refresh_tokens :
          \E u \in get_user_by_id(refresh_tokens[i].user_id) :
             users[u].id = refresh_tokens[i].user_id
    /\ \A i \in DOMAIN users : users[i].id = i
    /\ \A w \in Workers :
          Done(w, "refresh") => req[w].detail # "User not found"

\* C30 witness: the second user's secret has been rotated: validation
\* found the record and the record's user_id led to the user.
C30_Witness ==
    \E w \in Workers :
       /\ Done(w, "refresh")
       /\ req[w].status = 200
       /\ \E i \in RowsOf(refresh_tokens, req[w].input) :
             /\ refresh_tokens[i].user_id = 2
             /\ refresh_tokens[i].revoked_at # Null

\* C31 as stated: a client that presents the secret of its cookie is
\* refused by refresh_tokens only if that secret's record has expired or
\* was revoked by a logout or a revoke (a revoked record that no rotation
\* has replaced).
C31_ClientRefreshes(w) ==
    /\ cookie # Null
    /\ pc[w] = "idle"
    /\ pc'[w] # "idle"
    /\ req'[w].op = "refresh"
    /\ req'[w].input = cookie[1]

C31_OriginalStep ==
    \A w \in Workers :
       (C31_ClientRefreshes(w) /\ pc'[w] = "done" /\ req'[w].status = 401) =>
          \E i \in RowsOf(refresh_tokens, cookie[1]) :
             \/ refresh_tokens[i].expires_at <= now
             \/ refresh_tokens[i].revoked_at # Null /\ Rotations(i) = {}

C31_NeverRejected == [][C31_OriginalStep]_vars

\* C31, amended: a client that presents the secret of its cookie is
\* refused by refresh_tokens only if that secret's record has expired, was
\* revoked by a logout or a revoke, or was consumed by a rotation (the
\* client's own, whose response never reached it); while the record is
\* usable the refresh is not refused.  The only steps that end the
\* usability of the client's secret are the passing of time, the commit of
\* a logout or a revoke, and the commit of a rotation of that very secret:
\* requests of other clients of the same user leave it usable.
C31_Step ==
    /\ \A w \in Workers :
          C31_ClientRefreshes(w) =>
             /\ RowsOf(refresh_tokens, cookie[1]) # {}
             /\ (pc'[w] = "done" /\ req'[w].status = 401) <=>
                   ~Usable(refresh_tokens, now, cookie[1])
    /\ \/ refresh_tokens' = refresh_tokens /\ now' = now
       \/ cookie = Null
       \/ ~Usable(refresh_tokens, now, cookie[1])
       \/ Usable(refresh_tokens', now', cookie[1])
       \/ now' # now
       \/ \E w \in Workers :
             /\ pc'[w] = "done"
             /\ \/ pc[w] \in {"revoke_commit", "revoke_all_commit"}
                \/ pc[w] = "refresh_commit" /\ req[w].input = cookie[1]

C31_RejectedOnlyWithCause == [][C31_Step]_vars

\* C31 witness: the client's refresh has succeeded although, since its
\* cookie was set, another client of the same user has logged in.
C31_Witness ==
    \E w \in Workers :
       /\ Done(w, "refresh")
       /\ req[w].status = 200
       /\ cookie = <<req[w].input>>
       /\ \E i \in RowsOf(refresh_tokens, cookie[1]) :
          \E j \in DOMAIN refresh_tokens :
             /\ i < j
             /\ refresh_tokens[j].user_id = refresh_tokens[i].user_id
             /\ refresh_tokens[j].rotated_from = 0
             /\ refresh_tokens[j].revoked_at = Null
             /\ Rotations(i) # {}

====
